---- MODULE Spec2Model ----
(***************************************************************************)
(* Model of src/main.rs: create_movie_graph (graph builder), bfs (shortest *)
(* path engine) and the query loop of main.                                *)
(*                                                                         *)
(* Node positions are 0-based, as petgraph's NodeIndex.  Option values are *)
(* sequences: None is <<>> and Some(x) is <<x>>.                           *)
(***************************************************************************)
EXTENDS Integers, Sequences, FiniteSets

VARIABLES
    pc,            \* position in the function being run
    build,         \* "debug" (overflow checks on) or "release" (wrapping)
    movies,        \* input of create_movie_graph: sequence of [id, title]
    ratings,       \* input of create_movie_graph: sequence of [user_id, movie_id, rating]
    nodes,         \* graph: node weights (titles), position k+1 holds node index k
    edges,         \* graph: edges in insertion order, [source, target, weight]
    movie_nodes,   \* Vec<NodeIndex> filled by the node phase
    cur,           \* the rating bound by the edge loop (Option)
    yielded,       \* number of items the running skip/take iterator has yielded
    take_n,        \* the usize handed to take(), as a machine word
    start,         \* bfs argument
    end,           \* bfs argument
    stack,         \* Bfs.stack (queue of discovered, not yet returned nodes)
    discovered,    \* Bfs.discovered (visit map)
    parents,       \* parents: Vec<Option<NodeIndex>>
    path,          \* path under reconstruction
    current,       \* cursor of the reconstruction loop
    result,        \* return value of bfs (Option)
    total_nodes,   \* main: graph.node_count()
    chosen_ids,    \* main: sampled identifiers, as decimal strings
    i,             \* main: outer loop index (0-based)
    j,             \* main: inner loop index (0-based)
    main_start,    \* main: start (Option of a u32 word)
    main_end       \* main: end (Option of a u32 word)

bfsVars == <<start, end, stack, discovered, parents, path, current, result>>
buildVars == <<movies, ratings, movie_nodes, cur, yielded, take_n>>
graphVars == <<nodes, edges>>
mainVars == <<total_nodes, chosen_ids, i, j, main_start, main_end>>
vars == <<pc, build, buildVars, graphVars, bfsVars, mainVars>>

None == <<>>
Some(x) == <<x>>

(***************************************************************************)
(* Bounds of the model.                                                    *)
(***************************************************************************)
MaxWindow == 2     \* longest retained window of the enumerated inputs
MaxId == 2         \* identifiers of the enumerated ratings are 0..MaxId
MaxNodes == 3      \* bfs: graphs of 1..MaxNodes nodes
MaxEdges == 3      \* bfs: graphs of at most MaxEdges edges
MaxPath == 6       \* capacity the allocator grants to the path vector

(***************************************************************************)
(* Machine integers.  u32 and usize values are little-endian sequences of  *)
(* 16-bit limbs, so that 2^32 - 1 and 2^64 - k are represented exactly.    *)
(***************************************************************************)
LimbBase == 2^16
U32Limbs == 2
USizeLimbs == 4

RECURSIVE NatToWord(_, _)
NatToWord(n, limbs) ==
    IF limbs = 0 THEN <<>>
    ELSE <<n % LimbBase>> \o NatToWord(n \div LimbBase, limbs - 1)

\* a < b, unsigned
WordLt(a, b) ==
    \E k \in 1..Len(a) :
        /\ a[k] < b[k]
        /\ \A h \in (k + 1)..Len(a) : a[h] = b[h]

WordLe(a, b) == a = b \/ WordLt(a, b)

RECURSIVE SubLimbs(_, _, _, _)
SubLimbs(a, b, k, borrow) ==
    IF k > Len(a) THEN <<>>
    ELSE LET d == a[k] - b[k] - borrow
         IN  IF d < 0
             THEN <<d + LimbBase>> \o SubLimbs(a, b, k + 1, 1)
             ELSE <<d>> \o SubLimbs(a, b, k + 1, 0)

\* a - b modulo 2^(16 * Len(a)): what the subtraction yields without overflow checks
WrappingSub(a, b) == SubLimbs(a, b, 1, 0)

\* `x as usize` on a u32, `x as u32` on a usize
ZeroExtend(w, limbs) == w \o [k \in 1..(limbs - Len(w)) |-> 0]
Truncate(w, limbs) == SubSeq(w, 1, limbs)

\* the value of a word known to be below a natural bound
WordToNat(w) == w[1] + LimbBase * w[2]

\* a - b on machine integers: None stands for the overflow panic of a debug build
CheckedSub(mode, a, b) ==
    IF WordLt(a, b) /\ mode = "debug" THEN None ELSE Some(WrappingSub(a, b))

(***************************************************************************)
(* petgraph::Graph                                                         *)
(***************************************************************************)
NodeCount == Len(nodes)

\* contains_edge that finds nothing: the test of line 118 left out
ContainsEdgeNever(es, a, b) == FALSE

\* Graph::contains_edge
ContainsEdge(es, a, b) == \E k \in 1..Len(es) : es[k].source = a /\ es[k].target = b

\* Graph::neighbors: targets of the outgoing edges, most recently added first
RECURSIVE NeighborsFrom(_, _, _)
NeighborsFrom(es, a, k) ==
    IF k = 0 THEN <<>>
    ELSE (IF es[k].source = a THEN <<es[k].target>> ELSE <<>>)
         \o NeighborsFrom(es, a, k - 1)

\* neighbors along the incoming edges: direction ignored
NeighborsAgainst(es, a) ==
    LET rev == [k \in 1..Len(es) |->
                  [source |-> es[k].target, target |-> es[k].source, weight |-> es[k].weight]]
    IN  NeighborsFrom(rev, a, Len(rev))

\* line 157, and the successors Bfs::next walks
Neighbors(es, a) == NeighborsFrom(es, a, Len(es))

(***************************************************************************)
(* bfs (main.rs 127-166)                                                   *)
(***************************************************************************)
Reverse(s) == [k \in 1..Len(s) |-> s[Len(s) + 1 - k]]

\* Bfs::next, the discovery part: push every successor not yet discovered
RECURSIVE Discover(_, _, _)
Discover(succs, q, seen) ==
    IF succs = <<>> THEN [stack |-> q, discovered |-> seen]
    ELSE IF Head(succs) \in seen
         THEN Discover(Tail(succs), q, seen)
         ELSE Discover(Tail(succs), Append(q, Head(succs)), seen \cup {Head(succs)})

\* the loop of lines 157-161 over the neighbors of n
RECURSIVE SetParents(_, _, _)
SetParents(ps, nbs, n) ==
    IF nbs = <<>> THEN ps
    ELSE SetParents(IF ps[Head(nbs)] = None
                    THEN [ps EXCEPT ![Head(nbs)] = Some(n)]
                    ELSE ps,
                    Tail(nbs), n)

\* lines 149-150
FinishPath(p, s) == Reverse(Append(p, s))

\* the end test applied to discovered nodes only, never to start itself
IsEndSkippingStart(n, e) == n = e /\ n # start

\* line 137
IsEnd(n, e) == n = e

\* the graphs of n nodes bfs is run on: at most MaxEdges edges, one per ordered
\* pair as create_movie_graph builds them, in every insertion order
BfsGraphs(n) ==
    LET Pairs == (0..(n - 1)) \X (0..(n - 1))
        Lists == UNION {[1..k -> Pairs] : k \in 0..MaxEdges}
    IN  {[k \in 1..Len(l) |-> [source |-> l[k][1], target |-> l[k][2], weight |-> k]] :
            l \in {m \in Lists : \A x, y \in 1..Len(m) : x # y => m[x] # m[y]}}

InitBfs ==
    /\ pc = "loop"
    /\ build = "release"
    /\ \E n \in 1..MaxNodes :
        /\ nodes = [k \in 1..n |-> k]
        /\ edges \in BfsGraphs(n)
        /\ start \in 0..(n - 1)
        /\ end \in 0..(n - 1)
        /\ parents = [k \in 0..(n - 1) |-> None]
    /\ stack = <<start>>
    /\ discovered = {start}
    /\ path = <<>>
    /\ current = end
    /\ result = None
    /\ movies = <<>> /\ ratings = <<>> /\ movie_nodes = <<>>
    /\ cur = None /\ yielded = 0 /\ take_n = NatToWord(0, USizeLimbs)
    /\ total_nodes = 0 /\ chosen_ids = <<>> /\ i = 0 /\ j = 0
    /\ main_start = None /\ main_end = None

\* line 135 with an empty queue, then line 165
BfsExhausted ==
    /\ pc = "loop"
    /\ stack = <<>>
    /\ result' = None
    /\ pc' = "returned"
    /\ UNCHANGED <<build, buildVars, graphVars, mainVars,
                   start, end, stack, discovered, parents, path, current>>

\* line 135 yielding end, lines 137-140
BfsReachEnd ==
    /\ pc = "loop"
    /\ stack # <<>>
    /\ IsEnd(Head(stack), end)
    /\ LET d == Discover(Neighbors(edges, Head(stack)), Tail(stack), discovered)
       IN  stack' = d.stack /\ discovered' = d.discovered
    /\ path' = <<>>
    /\ current' = end
    /\ pc' = "backtrack"
    /\ UNCHANGED <<build, buildVars, graphVars, mainVars, start, end, parents, result>>

\* line 135 yielding another node, lines 157-161
BfsVisit ==
    /\ pc = "loop"
    /\ stack # <<>>
    /\ ~IsEnd(Head(stack), end)
    /\ LET d == Discover(Neighbors(edges, Head(stack)), Tail(stack), discovered)
       IN  stack' = d.stack /\ discovered' = d.discovered
    /\ parents' = SetParents(parents, Neighbors(edges, Head(stack)), Head(stack))
    /\ UNCHANGED <<pc, build, buildVars, graphVars, mainVars,
                   start, end, path, current, result>>

\* lines 143-146, one iteration
BacktrackStep ==
    /\ pc = "backtrack"
    /\ parents[current] # None
    /\ Len(path) < MaxPath
    /\ path' = Append(path, current)
    /\ current' = parents[current][1]
    /\ UNCHANGED <<pc, build, buildVars, graphVars, mainVars,
                   start, end, stack, discovered, parents, result>>

\* line 144 when the vector cannot grow any more: the process aborts
BacktrackOom ==
    /\ pc = "backtrack"
    /\ parents[current] # None
    /\ Len(path) >= MaxPath
    /\ pc' = "oom"
    /\ UNCHANGED <<build, buildVars, graphVars, mainVars, bfsVars>>

\* lines 149-153
BfsReturnPath ==
    /\ pc = "backtrack"
    /\ parents[current] = None
    /\ result' = Some(FinishPath(path, start))
    /\ pc' = "returned"
    /\ UNCHANGED <<build, buildVars, graphVars, mainVars,
                   start, end, stack, discovered, parents, path, current>>

NextBfs ==
    \/ BfsExhausted
    \/ BfsReachEnd
    \/ BfsVisit
    \/ BacktrackStep
    \/ BacktrackOom
    \/ BfsReturnPath

BfsSpec == InitBfs /\ [][NextBfs]_vars

(***************************************************************************)
(* create_movie_graph (main.rs 87-125)                                     *)
(***************************************************************************)
Skip == 10
Trim == 20

USize(n) == NatToWord(n, USizeLimbs)
U32(n) == NatToWord(n, U32Limbs)

\* Lengths of the enumerated inputs: around the skip and trim boundaries, then
\* every length whose window holds 0..MaxWindow items.
InputLens == {0, Skip, Skip + 1, Trim - 1} \cup (Trim..(Trim + MaxWindow))

\* movies with sequential identifiers idBase, idBase + 1, ...; the title of the
\* k-th movie is written k
MoviesOf(n, idBase) == [k \in 1..n |-> [id |-> idBase + k - 1, title |-> k]]

\* the positions of a rating list of length m whose identifiers are enumerated:
\* the first MaxWindow positions behind the skipped prefix, short of the
\* trimmed suffix
FreePositions(m) ==
    {p \in 1..m : /\ p > Skip
                  /\ p <= Skip + MaxWindow
                  /\ m >= Trim => p <= m - Skip}

\* ratings of length m: the items at the free positions carry the identifiers
\* c gives them, the others rate movie 1 by user 1; the score of the item at
\* position p is written p
RatingsOf(m, c) ==
    [p \in 1..m |->
        [user_id |-> IF p \in DOMAIN c THEN c[p][1] ELSE 1,
         movie_id |-> IF p \in DOMAIN c THEN c[p][2] ELSE 1,
         rating |-> p]]

\* iter().skip(10).take(n): whether a next item exists after `done` items
HasNext(xs, done, n) == WordLt(USize(done), n) /\ Skip + done < Len(xs)
NextItem(xs, done) == xs[Skip + done + 1]

InitBuild ==
    /\ pc = "nodes_take"
    /\ build \in {"debug", "release"}
    /\ \E n \in InputLens : movies = MoviesOf(n, 1)
    /\ \E m \in InputLens :
        \E c \in [FreePositions(m) -> (0..MaxId) \X (0..MaxId)] :
            ratings = RatingsOf(m, c)
    /\ nodes = <<>> /\ edges = <<>> /\ movie_nodes = <<>>
    /\ cur = None /\ yielded = 0 /\ take_n = USize(0)
    /\ start = 0 /\ end = 0 /\ stack = <<>> /\ discovered = {}
    /\ parents = <<>> /\ path = <<>> /\ current = 0 /\ result = None
    /\ total_nodes = 0 /\ chosen_ids = <<>> /\ i = 0 /\ j = 0
    /\ main_start = None /\ main_end = None

\* line 95: movies.len() - 20
NodesTake ==
    /\ pc = "nodes_take"
    /\ LET n == CheckedSub(build, USize(Len(movies)), USize(Trim))
       IN  IF n = None
           THEN pc' = "panic_nodes_take" /\ UNCHANGED take_n
           ELSE pc' = "nodes" /\ take_n' = n[1]
    /\ yielded' = 0
    /\ UNCHANGED <<build, movies, ratings, movie_nodes, cur, graphVars, bfsVars, mainVars>>

\* lines 95-99, one iteration
AddNode ==
    /\ pc = "nodes"
    /\ HasNext(movies, yielded, take_n)
    /\ nodes' = Append(nodes, NextItem(movies, yielded).title)
    /\ movie_nodes' = Append(movie_nodes, Len(nodes))
    /\ yielded' = yielded + 1
    /\ UNCHANGED <<pc, build, movies, ratings, cur, take_n, edges, bfsVars, mainVars>>

\* line 95, iterator exhausted
NodesDone ==
    /\ pc = "nodes"
    /\ ~HasNext(movies, yielded, take_n)
    /\ pc' = "edges_take"
    /\ UNCHANGED <<build, buildVars, graphVars, bfsVars, mainVars>>

\* line 103: ratings.len() - 20
EdgesTake ==
    /\ pc = "edges_take"
    /\ LET n == CheckedSub(build, USize(Len(ratings)), USize(Trim))
       IN  IF n = None
           THEN pc' = "panic_edges_take" /\ UNCHANGED take_n
           ELSE pc' = "edges" /\ take_n' = n[1]
    /\ yielded' = 0
    /\ UNCHANGED <<build, movies, ratings, movie_nodes, cur, graphVars, bfsVars, mainVars>>

\* lines 105-120 for one rating: what becomes of it
RatingOutcome(r) ==
    LET m1 == CheckedSub(build, U32(r.movie_id), U32(1))
    IN  IF m1 = None THEN [kind |-> "panic_movie_id"]
        ELSE
        LET movie_node_index == ZeroExtend(m1[1], USizeLimbs)
        IN  IF ~WordLt(movie_node_index, USize(Len(movie_nodes)))
            THEN [kind |-> "skip"]
            ELSE
            LET source == movie_nodes[WordToNat(movie_node_index) + 1]
                u1 == CheckedSub(build, U32(r.user_id), U32(1))
            IN  IF u1 = None THEN [kind |-> "panic_user_id"]
                ELSE
                LET target == Truncate(ZeroExtend(u1[1], USizeLimbs), U32Limbs)
                IN  IF /\ source < NodeCount
                       /\ WordLt(ZeroExtend(target, USizeLimbs), USize(NodeCount))
                    THEN IF ~ContainsEdge(edges, source, WordToNat(target))
                         THEN [kind |-> "add", source |-> source,
                               target |-> WordToNat(target)]
                         ELSE [kind |-> "skip"]
                    ELSE [kind |-> "skip"]

\* lines 105 and 113: the subtraction overflows in a build with overflow checks
RatingPanic ==
    /\ pc = "edges"
    /\ HasNext(ratings, yielded, take_n)
    /\ LET r == NextItem(ratings, yielded)
       IN  /\ RatingOutcome(r).kind \in {"panic_movie_id", "panic_user_id"}
           /\ cur' = Some(r)
           /\ pc' = RatingOutcome(r).kind
    /\ yielded' = yielded + 1
    /\ UNCHANGED <<build, movies, ratings, movie_nodes, take_n, graphVars, bfsVars, mainVars>>

\* lines 107-109, 116 and 118 when a test fails: the rating adds nothing
RatingDiscard ==
    /\ pc = "edges"
    /\ HasNext(ratings, yielded, take_n)
    /\ LET r == NextItem(ratings, yielded)
       IN  /\ RatingOutcome(r).kind = "skip"
           /\ cur' = Some(r)
    /\ yielded' = yielded + 1
    /\ UNCHANGED <<pc, build, movies, ratings, movie_nodes, take_n, graphVars, bfsVars, mainVars>>

\* line 119
RatingAddEdge ==
    /\ pc = "edges"
    /\ HasNext(ratings, yielded, take_n)
    /\ LET r == NextItem(ratings, yielded)
           o == RatingOutcome(r)
       IN  /\ o.kind = "add"
           /\ cur' = Some(r)
           /\ edges' = Append(edges, [source |-> o.source, target |-> o.target,
                                      weight |-> r.rating])
    /\ yielded' = yielded + 1
    /\ UNCHANGED <<pc, build, movies, ratings, movie_nodes, take_n, nodes, bfsVars, mainVars>>

\* line 103, iterator exhausted; line 124
EdgesDone ==
    /\ pc = "edges"
    /\ ~HasNext(ratings, yielded, take_n)
    /\ pc' = "done"
    /\ UNCHANGED <<build, buildVars, graphVars, bfsVars, mainVars>>

NextBuild ==
    \/ NodesTake
    \/ AddNode
    \/ NodesDone
    \/ EdgesTake
    \/ RatingPanic
    \/ RatingDiscard
    \/ RatingAddEdge
    \/ EdgesDone

BuildSpec == InitBuild /\ [][NextBuild]_vars

FairBuildSpec == BuildSpec /\ WF_vars(NextBuild)

(***************************************************************************)
(* main, the query loop (main.rs 180-234)                                  *)
(***************************************************************************)
SampleSize == 20

\* u32::to_string: the decimal digits, most significant first
RECURSIVE to_string(_)
to_string(n) == IF n < 10 THEN <<n>> ELSE Append(to_string(n \div 10), n % 10)

\* str::parse::<usize> on a string of decimal digits
RECURSIVE ParseDigits(_, _)
ParseDigits(str, acc) ==
    IF str = <<>> THEN acc ELSE ParseDigits(Tail(str), 10 * acc + Head(str))

ParseUsize(str) == USize(ParseDigits(str, 0))

\* what iter().skip(10).take(len - 20) yields in all, for a build where the
\* subtraction does not panic
WindowLen(mode, len) ==
    LET n == CheckedSub(mode, USize(len), USize(Trim))[1]
        rest == IF len > Skip THEN len - Skip ELSE 0
    IN  IF WordLt(n, USize(rest)) THEN WordToNat(n) ELSE rest

\* choose_multiple(&mut rng, 20) returns min(20, len) entries at distinct
\* positions, in an order the generator decides; the samples enumerated here
\* are the runs of consecutive entries (cyclically) from each first position
Samples(ids) ==
    IF ids = <<>> THEN {<<>>}
    ELSE LET amount == IF Len(ids) < SampleSize THEN Len(ids) ELSE SampleSize
         IN  {[k \in 1..amount |-> ids[((first + k - 2) % Len(ids)) + 1]] :
                 first \in 1..Len(ids)}

\* lines 203-208 and 213-218: the index a chosen id is turned into.
\* "skip" for the `_ => continue` arm, "panic" for an overflowing idx - 1
ToNodeIndex(str) ==
    LET idx == ParseUsize(str)
    IN  IF ~WordLe(idx, USize(total_nodes)) THEN [kind |-> "skip"]
        ELSE LET d == CheckedSub(build, idx, USize(1))
             IN  IF d = None THEN [kind |-> "panic"]
                 ELSE [kind |-> "index", index |-> Truncate(d[1], U32Limbs)]

\* NodeIndex within the graph
ValidIndex(ix) == WordLt(ZeroExtend(ix, USizeLimbs), USize(total_nodes))

InitMain ==
    /\ pc = "outer"
    /\ build \in {"debug", "release"}
    /\ \E n \in InputLens, idBase \in {0, 1} :
        /\ build = "debug" => n >= Trim
        /\ movies = MoviesOf(n, idBase)
        /\ total_nodes = WindowLen(build, n)
        /\ nodes = [k \in 1..total_nodes |-> movies[Skip + k].title]
        /\ movie_nodes = [k \in 1..total_nodes |-> k - 1]
        /\ chosen_ids \in Samples([k \in 1..n |-> to_string(movies[k].id)])
    /\ ratings = RatingsOf(Trim, <<>>)
    /\ edges = <<>>
    /\ cur = None /\ yielded = 0 /\ take_n = USize(0)
    /\ start = 0 /\ end = 0 /\ stack = <<>> /\ discovered = {}
    /\ parents = <<>> /\ path = <<>> /\ current = 0 /\ result = None
    /\ i = 0 /\ j = 0
    /\ main_start = None /\ main_end = None

\* lines 201-208, the `_ => continue` arm
OuterSkip ==
    /\ pc = "outer"
    /\ i < Len(chosen_ids)
    /\ ToNodeIndex(chosen_ids[i + 1]).kind = "skip"
    /\ i' = i + 1
    /\ UNCHANGED <<pc, build, buildVars, graphVars, bfsVars,
                   total_nodes, chosen_ids, j, main_start, main_end>>

\* line 205
OuterStart ==
    /\ pc = "outer"
    /\ i < Len(chosen_ids)
    /\ LET r == ToNodeIndex(chosen_ids[i + 1])
       IN  \/ /\ r.kind = "index"
              /\ main_start' = Some(r.index)
              /\ j' = i + 1
              /\ pc' = "inner"
           \/ /\ r.kind = "panic"
              /\ pc' = "panic_start"
              /\ UNCHANGED <<main_start, j>>
    /\ UNCHANGED <<build, buildVars, graphVars, bfsVars,
                   total_nodes, chosen_ids, i, main_end>>

\* lines 211-218, the `_ => continue` arm
InnerSkip ==
    /\ pc = "inner"
    /\ j < Len(chosen_ids)
    /\ ToNodeIndex(chosen_ids[j + 1]).kind = "skip"
    /\ j' = j + 1
    /\ UNCHANGED <<pc, build, buildVars, graphVars, bfsVars,
                   total_nodes, chosen_ids, i, main_start, main_end>>

\* lines 215 and 221: end is computed and bfs is called
InnerCall ==
    /\ pc = "inner"
    /\ j < Len(chosen_ids)
    /\ LET r == ToNodeIndex(chosen_ids[j + 1])
       IN  \/ /\ r.kind = "index"
              /\ main_end' = Some(r.index)
              /\ pc' = "bfs_call"
           \/ /\ r.kind = "panic"
              /\ pc' = "panic_end"
              /\ UNCHANGED main_end
    /\ UNCHANGED <<build, buildVars, graphVars, bfsVars,
                   total_nodes, chosen_ids, i, j, main_start>>

\* lines 221-232 with positions of the graph: the outcome is printed
QueryDone ==
    /\ pc = "bfs_call"
    /\ ValidIndex(main_start[1]) /\ ValidIndex(main_end[1])
    /\ j' = j + 1
    /\ pc' = "inner"
    /\ UNCHANGED <<build, buildVars, graphVars, bfsVars,
                   total_nodes, chosen_ids, i, main_start, main_end>>

\* lines 221-232 with a position outside the graph: the visit map of Bfs::new,
\* or graph[start] and graph[end], are indexed out of bounds
QueryPanic ==
    /\ pc = "bfs_call"
    /\ ~(ValidIndex(main_start[1]) /\ ValidIndex(main_end[1]))
    /\ pc' = "panic_query"
    /\ UNCHANGED <<build, buildVars, graphVars, bfsVars, mainVars>>

\* line 211, range exhausted
InnerDone ==
    /\ pc = "inner"
    /\ j >= Len(chosen_ids)
    /\ i' = i + 1
    /\ pc' = "outer"
    /\ UNCHANGED <<build, buildVars, graphVars, bfsVars,
                   total_nodes, chosen_ids, j, main_start, main_end>>

\* line 201, range exhausted; lines 235-236
OuterDone ==
    /\ pc = "outer"
    /\ i >= Len(chosen_ids)
    /\ pc' = "finished"
    /\ UNCHANGED <<build, buildVars, graphVars, bfsVars, mainVars>>

NextMain ==
    \/ OuterSkip
    \/ OuterStart
    \/ InnerSkip
    \/ InnerCall
    \/ QueryDone
    \/ QueryPanic
    \/ InnerDone
    \/ OuterDone

MainSpec == InitMain /\ [][NextMain]_vars

FairBfsSpec == BfsSpec /\ WF_vars(NextBfs)

(***************************************************************************)
(* Properties                                                              *)
(***************************************************************************)
Max0(n) == IF n < 0 THEN 0 ELSE n

EdgePairs == {<<edges[k].source, edges[k].target>> : k \in 1..Len(edges)}

\* the nodes a directed walk of at most k edges reaches from s
RECURSIVE ReachWithin(_, _)
ReachWithin(s, k) ==
    IF k = 0 THEN {s}
    ELSE LET R == ReachWithin(s, k - 1)
         IN  R \cup {p[2] : p \in {q \in EdgePairs : q[1] \in R}}

Reachable(s, e) == e \in ReachWithin(s, NodeCount)

\* the minimum number of edges of a directed walk from s to e
Distance(s, e) == CHOOSE k \in 0..NodeCount :
                     /\ e \in ReachWithin(s, k)
                     /\ \A h \in 0..(k - 1) : e \notin ReachWithin(s, h)

\* C1: a finished bfs call has returned None exactly when end is not reachable
\* from start along directed edges, and otherwise a path whose number of edges
\* is the minimum hop count from start to end.
C1_BfsShortestOrNone ==
    pc \in {"returned", "oom"} =>
        /\ pc = "returned"
        /\ IF Reachable(start, end)
           THEN result # None /\ Len(result[1]) - 1 = Distance(start, end)
           ELSE result = None

\* C2: every bfs call terminates: the reconstruction loop never comes back to
\* a node it has already pushed (the predecessor links are fixed while it runs,
\* so it would then repeat for ever) and never outgrows the memory of the path.
C2_BfsTerminates ==
    /\ pc # "oom"
    /\ pc = "backtrack" => \A k \in 1..Len(path) : path[k] # current

\* C3: a path returned by bfs starts at start, ends at end, and every
\* consecutive pair of it is a directed edge of the graph, followed forwards.
C3_PathIsDirectedWalk ==
    (pc = "returned" /\ result # None) =>
        LET p == result[1]
        IN  /\ Len(p) >= 1
            /\ p[1] = start
            /\ p[Len(p)] = end
            /\ \A k \in 1..(Len(p) - 1) : <<p[k], p[k + 1]>> \in EdgePairs

C3_Witness ==
    /\ pc = "returned"
    /\ result # None
    /\ Len(result[1]) = 3
    /\ <<result[1][2], result[1][1]>> \notin EdgePairs
    /\ <<result[1][3], result[1][2]>> \notin EdgePairs

\* C4: create_movie_graph does not fail on the take count of the node phase,
\* whatever the number of movies, and the node phase leaves
\* max(0, len(movies) - 20) nodes.
C4_NodeCountClamped ==
    /\ pc # "panic_nodes_take"
    /\ pc \in {"edges_take", "edges", "done"} => NodeCount = Max0(Len(movies) - Trim)

NoDuplicateEdges ==
    \A x, y \in 1..Len(edges) :
        (edges[x].source = edges[y].source /\ edges[x].target = edges[y].target) => x = y

DuplicateLeavesGraph ==
    (/\ pc = "edges"
     /\ yielded' = yielded + 1
     /\ <<cur'[1].movie_id - 1, cur'[1].user_id - 1>> \in EdgePairs)
    => edges' = edges

\* C5: in every state of the edge phase and in the final graph no two edges
\* share their ordered (source, target) pair, and a rating of the window that
\* computes a pair already present leaves the edges, scores included, unchanged.
C5_AtMostOneEdgePerPair == []NoDuplicateEdges /\ [][DuplicateLeavesGraph]_vars

C5_Witness ==
    /\ pc \in {"edges", "done"}
    /\ cur # None
    /\ \E k \in 1..Len(edges) :
        /\ edges[k].source = cur[1].movie_id - 1
        /\ edges[k].target = cur[1].user_id - 1
        /\ edges[k].weight # cur[1].rating

InvalidPositions(r) ==
    ~(/\ r.movie_id - 1 \in 0..(NodeCount - 1)
      /\ r.user_id - 1 \in 0..(NodeCount - 1))

\* C6: a rating of the window whose source position movie_id - 1 or target
\* position user_id - 1 is no node position adds no edge, leaves the graph
\* unchanged and does not make create_movie_graph fail: the loop goes on.
C6_InvalidRatingDiscarded ==
    [][(/\ pc = "edges"
        /\ yielded' = yielded + 1
        /\ InvalidPositions(cur'[1]))
       => (edges' = edges /\ nodes' = nodes /\ pc' = "edges")]_vars

\* C7: bfs from a node to itself returns the single-element path of that node,
\* also when the node has a self-loop or lies on a directed cycle: the first
\* node taken from the queue is the end, no predecessor is recorded yet, and
\* the reconstruction stops at once.
C7_StartEqualsEnd ==
    start = end =>
        /\ pc \in {"loop", "backtrack", "returned"}
        /\ pc = "loop" => stack = <<start>>
        /\ pc = "backtrack" => (path = <<>> /\ parents[current] = None)
        /\ pc = "returned" => result = Some(<<start>>)

C7_Witness ==
    /\ pc = "returned"
    /\ start = end
    /\ result = Some(<<start>>)
    /\ <<start, start>> \in EdgePairs
    /\ \E n \in 0..(NodeCount - 1) :
        n # start /\ <<start, n>> \in EdgePairs /\ <<n, start>> \in EdgePairs

\* C8: the graph create_movie_graph returns has at most
\* max(0, len(ratings) - 20) edges, whatever the number of ratings.
C8_EdgeCountBounded ==
    pc = "done" => Len(edges) <= Max0(Len(ratings) - Trim)

IsNodePosition(ix) == ix # None /\ ix[1][2] = 0 /\ ix[1][1] < total_nodes

\* C9: the query loop does not fail, and every start and end it passes to bfs
\* is a node position of the graph.
C9_QueriesUseValidPositions ==
    /\ pc \notin {"panic_start", "panic_end", "panic_query"}
    /\ pc = "bfs_call" => (IsNodePosition(main_start) /\ IsNodePosition(main_end))

\* following the predecessor links from n reaches start without revisiting a node
RECURSIVE ChainReachesStart(_, _)
ChainReachesStart(n, seen) ==
    IF n = start THEN TRUE
    ELSE IF n \in seen \/ parents[n] = None THEN FALSE
    ELSE ChainReachesStart(parents[n][1], seen \cup {n})

ParentsTreeRootedAtStart ==
    /\ parents[start] = None
    /\ \A n \in DOMAIN parents :
        parents[n] # None => ChainReachesStart(parents[n][1], {n})

PredecessorWrittenOnce ==
    \A n \in DOMAIN parents : parents[n] # None => parents'[n] = parents[n]

\* C10: in every state of a bfs call the predecessor links form a tree rooted
\* at start: start has no predecessor, a recorded predecessor is never
\* overwritten, and the links from any node that has one lead to start
\* without revisiting a node.
C10_PredecessorTree == []ParentsTreeRootedAtStart /\ [][PredecessorWrittenOnce]_vars

====
